---- MODULE Spec2Model ----
(***************************************************************************)
(* Model of src/index.js: the WebSocket relay set up by handleWebSocket    *)
(* (one Session: the accepted client-side socket `proxy`, the upstream     *)
(* socket `targetWebSocket`, the pendingMessages buffer and the            *)
(* establishment timer) and the deadline race of handleAPIRequest.         *)
(*                                                                         *)
(* Every event listener and the timer callback is one action: JavaScript   *)
(* runs each of them to completion before the next event is dispatched.    *)
(* The environment (the client, the upstream server, the clock) chooses    *)
(* which event comes next.                                                 *)
(***************************************************************************)
EXTENDS Integers, Sequences, FiniteSets

\* ------------------------------------------------------------------ bounds

\* Most client frames the environment delivers in one Session.
MaxClientFrames == 12
\* Most upstream frames the environment delivers in one Session.
MaxUpstreamFrames == 2

\* ------------------------------------------------------- program constants

\* const MAX_PENDING_MESSAGES = 10
MAX_PENDING_MESSAGES == 10

\* Mutant: the overflow close carries the normal-closure code.
OverflowCloseNormal == [code |-> 1000, reason |-> "Too many pending messages"]

\* proxy.close(1008, 'Too many pending messages')
OverflowClose == [code |-> 1008, reason |-> "Too many pending messages"]

\* targetWebSocket.close(1000, 'No activity after connection')
NoActivityClose == [code |-> 1000, reason |-> "No activity after connection"]

\* ------------------------------------------------------------- environment

\* The close events a peer can cause: a normal closure, and the abnormal
\* closure (1006, no reason) reported when the connection is lost.
CloseEvents ==
    {[code |-> 1000, reason |-> "bye"], [code |-> 1006, reason |-> ""]}

\* Payloads of upstream frames: a text frame and a binary frame.
UpstreamPayloads == {"text", "binary"}

VARIABLES
    targetReadyState,   \* targetWebSocket.readyState
    proxyReadyState,    \* proxy.readyState (after proxy.accept())
    pendingMessages,    \* let pendingMessages = []
    timeoutId,          \* the establishment timer: active, cancelled, fired
    targetOpened,       \* the open listener of targetWebSocket has run
    clientIn,           \* the message events dispatched on proxy, in order
    upstreamIn,         \* the message events dispatched on targetWebSocket
    targetSent,         \* the calls of targetWebSocket.send, in order
    proxySent,          \* the calls of proxy.send, in order
    targetCloseCalls,   \* the calls of targetWebSocket.close, in order
    proxyCloseCalls,    \* the calls of proxy.close, in order
    proxyCloseEvents,   \* the close events dispatched on proxy
    targetCloseEvents,  \* the close events dispatched on targetWebSocket
    sendThrew,          \* the sockets on which a send() call has thrown
    sendStates,         \* <<socket, its readyState>> at each send() call
    targetErrored,      \* an error event was dispatched on targetWebSocket
    api,                \* the state of one handleAPIRequest call
    route               \* the state of one call of the fetch entry point

wsVars ==
    <<targetReadyState, proxyReadyState, pendingMessages, timeoutId,
      targetOpened, clientIn, upstreamIn, targetSent, proxySent,
      targetCloseCalls, proxyCloseCalls, proxyCloseEvents,
      targetCloseEvents, sendThrew, sendStates, targetErrored>>

vars == <<wsVars, api, route>>

\* ----------------------------------------------------------------- helpers

\* The outcomes a send() call may have: it returns, or it throws (the
\* transport failed, the payload is too large); the listeners catch it.
SendOutcomes == {"returned", "threw"}

\* sendThrew after a send() on `socket` with outcome `outcome`.
AfterSend(threw, socket, outcome) ==
    IF outcome = "threw" THEN threw \cup {socket} ELSE threw

\* Mutant: a send() that throws tears the socket down.
AfterSendErrorCloses(state) == "CLOSED"

\* catch (error) { console.error(...) }: the readyState of a socket after a
\* send() on it threw; the catch blocks only log.
AfterSendError(state) == state

\* readyState of a socket after a send() on it with outcome `outcome`.
SocketAfterSend(state, outcome) ==
    IF outcome = "threw" THEN AfterSendError(state) ELSE state

\* sendStates after a send() on `socket`, called in readyState `state`.
SendObserved(states, socket, state) == states \cup {<<socket, state>>}

\* close(code, reason) throws for a code it may not carry (1004, 1005, 1006,
\* 1015 and everything outside 1000..4999) and then leaves the socket as is.
ValidCloseCode(code) ==
    /\ code >= 1000
    /\ code < 5000
    /\ code \notin {1004, 1005, 1006, 1015}

\* readyState after close(code, reason) was called in readyState `state`.
AfterCloseCall(state, code) ==
    IF ~ValidCloseCode(code) THEN state
    ELSE IF state \in {"CLOSING", "CLOSED"} THEN state
    ELSE "CLOSING"

\* -------------------------------------------------------------------- fetch

\* The values of the Upgrade header: the one the test at line 10 accepts, a
\* differently cased one, and no Upgrade header.
UpgradeHeaders == {"websocket", "WebSocket", "none"}

\* The path the relay's clients connect to.
SocketPath == <<"ws", "BidiGenerateContent">>

\* url.pathname, as its segments: "/" is <<>>.
Paths ==
    { <<>>, <<"index.html">>, SocketPath,
      <<"v1", "chat", "completions">>, <<"v1", "embeddings">>,
      <<"v1", "models">>, <<"css", "style.css">>, <<"models.html">> }

\* A request: its Upgrade header and its path.
Requests == [upgrade : UpgradeHeaders, path : Paths]

\* url.pathname.endsWith(suffix), suffix = "/" + segments joined by "/".
EndsWith(path, suffix) ==
    /\ Len(path) >= Len(suffix)
    /\ SubSeq(path, Len(path) - Len(suffix) + 1, Len(path)) = suffix

\* A response of fetch: the code that produced it, its status and body
\* (status 0: none yet, or the one handleAPIRequest returns).
Routed(handler, status, body) ==
    [handler |-> handler, status |-> status, body |-> body]

\* request.headers.get('Upgrade') === 'websocket'
IsUpgrade(request) == request.upgrade = "websocket"

\* handleWebSocket up to its return: the 400 of a request that is no upgrade,
\* else the 101 that hands the client socket over.
HandleWebSocket(request) ==
    IF request.upgrade # "websocket"
    THEN Routed("handleWebSocket", 400, "Expected WebSocket connection")
    ELSE Routed("handleWebSocket", 101, "")

\* The three API suffixes of the router.
IsApiPath(path) ==
    \/ EndsWith(path, <<"chat", "completions">>)
    \/ EndsWith(path, <<"embeddings">>)
    \/ EndsWith(path, <<"models">>)

\* url.pathname === '/' || url.pathname === '/index.html'
IsIndexPath(path) == path = <<>> \/ path = <<"index.html">>

\* The branch of fetch a request takes.
Dispatch(request) ==
    IF IsUpgrade(request) THEN "handleWebSocket"
    ELSE IF IsApiPath(request.path) THEN "handleAPIRequest"
    ELSE IF IsIndexPath(request.path) THEN "index"
    ELSE "asset"

\* What an awaited cache.match or __STATIC_CONTENT.get may do: resolve with
\* a value, resolve with nothing (undefined / null), or reject.
LookupOutcomes == {"found", "missing", "rejects"}

NoRequest == [upgrade |-> "none", path |-> <<>>]

\* No request is being routed.
RouteIdle ==
    [pc |-> "idle", request |-> NoRequest, response |-> Routed("", 0, "")]

\* A request has reached the fetch entry point.
RouteInit ==
    \E request \in Requests :
        route = [RouteIdle EXCEPT !.pc = "received", !.request = request]

\* fetch has returned `response`.
Responded(r, response) ==
    [r EXCEPT !.pc = "responded", !.response = response]

\* --------------------------------------------------------- handleAPIRequest

\* A value a promise rejects with or a call throws. isError: it is an
\* instance of Error. status 0 stands for no (or a falsy) status property.
\* nullish: the value is null or undefined.
ErrorValue(isError, message, status) ==
    [isError |-> isError, message |-> message, status |-> status,
     nullish |-> FALSE]

\* null or undefined, as in Promise.reject(null).
NullError == [ErrorValue(FALSE, "", 0) EXCEPT !.nullish = TRUE]

\* new Error('API request timeout')
TimeoutError == ErrorValue(TRUE, "API request timeout", 0)

\* What `await import('./api_proxy/worker.mjs')` throws when it fails.
ImportError == ErrorValue(TRUE, "Cannot load module", 0)

\* The outcomes of the import.
ImportOutcomes == {"loaded", "fails"}

\* A response: status, body and content-type.
Response(status, body, contentType) ==
    [status |-> status, body |-> body, contentType |-> contentType]

NoResponse == Response(0, "", "")

NoError == ErrorValue(FALSE, "", 0)

\* What worker.default.fetch(request) may do: throw before it returns a
\* promise, or return a promise that resolves with a response, rejects with
\* a value, or never settles. atOnce: the promise is already settled when
\* it is returned (an async function that returns or throws before its
\* first await); otherwise it settles in a later task.
ForwardCall(kind, atOnce, response, error) ==
    [kind |-> kind, atOnce |-> atOnce, response |-> response,
     error |-> error]

ForwardResponses ==
    { Response(200, "ok", "application/json"),
      Response(404, "not found", "text/html"),
      Response(503, "unavailable", "application/json") }

ForwardErrors ==
    { ErrorValue(TRUE, "bad request", 400),
      ErrorValue(TRUE, "overloaded", 503),
      ErrorValue(TRUE, "fetch failed", 0),
      ErrorValue(TRUE, "no content", 204),
      ErrorValue(TRUE, "not modified", 304),
      ErrorValue(TRUE, "unknown status", 700),
      ErrorValue(FALSE, "rejected with a string", 0),
      NullError }

ForwardCalls ==
    { ForwardCall("resolves", atOnce, r, NoError) :
          atOnce \in BOOLEAN, r \in ForwardResponses }
    \cup { ForwardCall("rejects", atOnce, NoResponse, e) :
               atOnce \in BOOLEAN, e \in ForwardErrors }
    \cup { ForwardCall("throws", FALSE, NoResponse, e) : e \in ForwardErrors }
    \cup { ForwardCall("never", FALSE, NoResponse, NoError) }

\* No handleAPIRequest call is in progress in a relay Session.
ApiIdle ==
    [pc |-> "idle", import |-> "loaded",
     forward |-> ForwardCall("never", FALSE, NoResponse, NoError),
     deadline |-> "pending", forwardState |-> "notCalled", first |-> "none",
     response |-> NoResponse, returns |-> 0, raced |-> FALSE,
     unhandled |-> {}]

\* error instanceof Error ? error.message : 'Unknown error occurred'
ErrorMessage(error) ==
    IF error.isError THEN error.message ELSE "Unknown error occurred"

\* error.status || 500
ErrorStatus(error) == IF error.status = 0 THEN 500 ELSE error.status

\* The statuses of responses that cannot have a body.
NullBodyStatuses == {204, 205, 304}

\* new Response(errorMessage, {status}) with a string body: a RangeError
\* for a status outside 200..599, a TypeError for a null-body status.
ResponseConstructible(status) ==
    /\ status >= 200
    /\ status <= 599
    /\ status \notin NullBodyStatuses

\* The catch block: the api state after `error` was caught. Reading
\* error.status of null or undefined throws a TypeError, and so does a
\* Response that cannot be constructed: handleAPIRequest rejects.
Caught(a, error) ==
    IF ~error.nullish /\ ResponseConstructible(ErrorStatus(error))
    THEN [a EXCEPT !.pc = "returned",
                   !.response = Response(ErrorStatus(error), ErrorMessage(error),
                                         "text/plain;charset=UTF-8"),
                   !.returns = a.returns + 1]
    ELSE [a EXCEPT !.pc = "threw"]

\* return await Promise.race(...) when the race resolved with `response`.
Returned(a, response) ==
    [a EXCEPT !.pc = "returned", !.response = response,
              !.returns = a.returns + 1]

\* Promise.race([responsePromise, timeoutPromise]): worker.default.fetch has
\* returned responsePromise, and the race attaches its reactions to both
\* promises.
StartRace(a) == [a EXCEPT !.raced = TRUE, !.forwardState = "pending"]

\* The promises that have rejected with no reaction attached, after
\* `promise` rejects: a promise has a reaction only once it is in the race.
Unhandled(a, promise) ==
    IF a.raced THEN a.unhandled ELSE a.unhandled \cup {promise}

\* The state after the synchronous start of handleAPIRequest: timeoutPromise
\* is created and its timer runs, the import is awaited.
ApiStart(outcome, call) ==
    [ApiIdle EXCEPT !.pc = "importing", !.import = outcome, !.forward = call]

ApiInit ==
    \E outcome \in ImportOutcomes, call \in ForwardCalls :
        api = ApiStart(outcome, call)

\* responsePromise is settled: the first branch to settle is recorded.
ForwardSettled(a) ==
    [a EXCEPT !.forwardState = "settled",
              !.first = IF a.first = "none" THEN "forward" ELSE a.first]

\* The race settles with responsePromise.
RaceWonByForward(a) ==
    IF a.forward.kind = "resolves" THEN Returned(a, a.forward.response)
    ELSE Caught(a, a.forward.error)

\* The import settles and the function runs on to its next await: the catch
\* block when the import failed or worker.default.fetch threw, else the
\* race. Promise.race subscribes to responsePromise before timeoutPromise:
\* a responsePromise that is already settled wins, even against a
\* timeoutPromise that rejected during the import; a pending one loses to
\* an already rejected timeoutPromise.
ApiImportSettles ==
    /\ api.pc = "importing"
    /\ api' =
         IF api.import = "fails" THEN Caught(api, ImportError)
         ELSE IF api.forward.kind = "throws" THEN Caught(api, api.forward.error)
         ELSE IF api.forward.atOnce
         THEN RaceWonByForward(ForwardSettled(StartRace(api)))
         ELSE IF api.deadline = "elapsed"
         THEN Caught(StartRace(api), TimeoutError)
         ELSE [StartRace(api) EXCEPT !.pc = "racing"]
    /\ UNCHANGED <<wsVars, route>>

\* The timer of timeoutPromise fires (it is never cleared): timeoutPromise
\* rejects, and a race that is still undecided rejects with it.
ApiDeadline ==
    /\ api.pc # "idle"
    /\ api.deadline = "pending"
    /\ LET a == [api EXCEPT !.deadline = "elapsed",
                            !.first = IF api.first = "none" THEN "deadline"
                                      ELSE api.first,
                            !.unhandled = Unhandled(api, "timeoutPromise")]
       IN api' = IF api.pc = "racing" THEN Caught(a, TimeoutError) ELSE a
    /\ UNCHANGED <<wsVars, route>>

\* responsePromise settles: a race that is still undecided settles with it.
ApiForwardSettles ==
    /\ api.forwardState = "pending"
    /\ api.forward.kind \in {"resolves", "rejects"}
    /\ LET a == [ForwardSettled(api) EXCEPT
                     !.unhandled = IF api.forward.kind = "rejects"
                                   THEN Unhandled(api, "responsePromise")
                                   ELSE api.unhandled]
       IN api' = IF api.pc # "racing" THEN a ELSE RaceWonByForward(a)
    /\ UNCHANGED <<wsVars, route>>

\* ---------------------------------------------------------- handleWebSocket

\* No Session: handleWebSocket has not been called.
WsNone ==
    /\ targetReadyState = "NONE"
    /\ proxyReadyState = "NONE"
    /\ pendingMessages = <<>>
    /\ timeoutId = "none"
    /\ targetOpened = FALSE
    /\ clientIn = <<>>
    /\ upstreamIn = <<>>
    /\ targetSent = <<>>
    /\ proxySent = <<>>
    /\ targetCloseCalls = <<>>
    /\ proxyCloseCalls = <<>>
    /\ proxyCloseEvents = <<>>
    /\ targetCloseEvents = <<>>
    /\ sendThrew = {}
    /\ sendStates = {}
    /\ targetErrored = FALSE

\* What handleWebSocket sets up before it returns the 101 response: the
\* accepted proxy socket, the connecting upstream socket, the empty buffer
\* and the running timer.
NewSession ==
    [targetReadyState |-> "CONNECTING", proxyReadyState |-> "OPEN",
     pendingMessages |-> <<>>, timeoutId |-> "active"]

\* The state when handleWebSocket returns the 101 response.
WsInit ==
    /\ targetReadyState = NewSession.targetReadyState
    /\ proxyReadyState = NewSession.proxyReadyState
    /\ pendingMessages = NewSession.pendingMessages
    /\ timeoutId = NewSession.timeoutId
    /\ targetOpened = FALSE
    /\ clientIn = <<>>
    /\ upstreamIn = <<>>
    /\ targetSent = <<>>
    /\ proxySent = <<>>
    /\ targetCloseCalls = <<>>
    /\ proxyCloseCalls = <<>>
    /\ proxyCloseEvents = <<>>
    /\ targetCloseEvents = <<>>
    /\ sendThrew = {}
    /\ sendStates = {}
    /\ targetErrored = FALSE

\* handleWebSocket called by fetch: the Session comes into being.
CreateSession ==
    /\ targetReadyState' = NewSession.targetReadyState
    /\ proxyReadyState' = NewSession.proxyReadyState
    /\ pendingMessages' = NewSession.pendingMessages
    /\ timeoutId' = NewSession.timeoutId
    /\ UNCHANGED <<targetOpened, clientIn, upstreamIn, targetSent, proxySent,
                   targetCloseCalls, proxyCloseCalls, proxyCloseEvents,
                   targetCloseEvents, sendThrew, sendStates, targetErrored>>

\* Mutant: the timer callback closes when the buffer is NOT empty.
TimeoutClosesInverted(pending) == Len(pending) # 0

\* Mutant: the timer callback closes whatever the buffer holds.
TimeoutClosesAlways(pending) == TRUE

\* if (pendingMessages.length === 0)
TimeoutCloses(pending) == Len(pending) = 0

\* The timer callback of setTimeout(..., WEBSOCKET_TIMEOUT).
TimeoutCallback ==
    /\ timeoutId = "active"
    /\ timeoutId' = "fired"
    /\ IF TimeoutCloses(pendingMessages)
       THEN /\ targetCloseCalls' = Append(targetCloseCalls, NoActivityClose)
            /\ targetReadyState' =
                   AfterCloseCall(targetReadyState, NoActivityClose.code)
       ELSE UNCHANGED <<targetCloseCalls, targetReadyState>>
    /\ UNCHANGED <<proxyReadyState, pendingMessages, targetOpened, clientIn,
                   upstreamIn, targetSent, proxySent, proxyCloseCalls,
                   proxyCloseEvents, targetCloseEvents, sendThrew,
                   sendStates, targetErrored, api, route>>

\* Mutant: the open listener does not clear the timer.
ClearTimeoutForgotten(t) == t

\* clearTimeout(timeoutId): a timer that is still pending never runs.
ClearTimeout(t) == IF t = "active" THEN "cancelled" ELSE t

\* Mutant: the drain sends the newest buffered message first.
DrainOrderReversed(pending) ==
    [i \in 1..Len(pending) |-> pending[Len(pending) + 1 - i]]

\* for (const message of pendingMessages): the order of the drain.
DrainOrder(pending) == pending

\* The send calls of the drain, one per buffered message; a call that throws
\* is caught inside the loop, which goes on with the next message.
DrainSends(pending) == DrainOrder(pending)

\* The outcomes the drain as a whole may have: with nothing buffered no send
\* is called; otherwise every call returns, or some call throws.
DrainOutcomes(pending) ==
    IF Len(pending) = 0 THEN {"returned"} ELSE SendOutcomes

\* Mutant: the buffer is not emptied after the drain.
AfterDrainKeeps(pending) == pending

\* pendingMessages = [] after the drain.
AfterDrain(pending) == <<>>

\* targetWebSocket.addEventListener("open", ...)
TargetOpen ==
    /\ targetReadyState = "CONNECTING"
    /\ targetOpened' = TRUE
    /\ timeoutId' = ClearTimeout(timeoutId)
    /\ targetSent' = targetSent \o DrainSends(pendingMessages)
    /\ sendStates' = IF Len(pendingMessages) = 0 THEN sendStates
                     ELSE SendObserved(sendStates, "target", "OPEN")
    /\ \E outcome \in DrainOutcomes(pendingMessages) :
          /\ sendThrew' = AfterSend(sendThrew, "target", outcome)
          /\ targetReadyState' = SocketAfterSend("OPEN", outcome)
    /\ pendingMessages' = AfterDrain(pendingMessages)
    /\ UNCHANGED <<proxyReadyState, clientIn, upstreamIn, proxySent,
                   targetCloseCalls, proxyCloseCalls, proxyCloseEvents,
                   targetCloseEvents, targetErrored, api, route>>

\* Mutant: a client frame is sent whatever the upstream readiness state.
ForwardsDirectlyAlways(state) == TRUE

\* if (targetWebSocket.readyState === WebSocket.OPEN)
ForwardsDirectly(state) == state = "OPEN"

\* Mutant: the capacity test is off by one.
BufferFullOffByOne(pending) == Len(pending) > MAX_PENDING_MESSAGES

\* if (pendingMessages.length >= MAX_PENDING_MESSAGES)
BufferFull(pending) == Len(pending) >= MAX_PENDING_MESSAGES

\* pendingMessages.push(event.data)
Push(pending, data) == Append(pending, data)

\* The payload of the next client frame: the frames of a Session are
\* numbered in arrival order, so that each one is distinct.
NextClientData == Len(clientIn) + 1

\* proxy.addEventListener("message", ...). A frame the client sent before it
\* saw the relay's close can still arrive while proxy is CLOSING.
ProxyMessage ==
    /\ proxyReadyState \in {"OPEN", "CLOSING"}
    /\ Len(clientIn) < MaxClientFrames
    /\ LET data == NextClientData IN
       /\ clientIn' = Append(clientIn,
              [data |-> data, readyState |-> targetReadyState,
               afterOpen |-> targetOpened])
       /\ IF ForwardsDirectly(targetReadyState)
          THEN /\ targetSent' = Append(targetSent, data)
               /\ sendStates' =
                      SendObserved(sendStates, "target", targetReadyState)
               /\ \E outcome \in SendOutcomes :
                     /\ sendThrew' = AfterSend(sendThrew, "target", outcome)
                     /\ targetReadyState' =
                            SocketAfterSend(targetReadyState, outcome)
               /\ UNCHANGED <<pendingMessages, proxyCloseCalls, proxyReadyState>>
          ELSE IF BufferFull(pendingMessages)
          THEN /\ proxyCloseCalls' = Append(proxyCloseCalls, OverflowClose)
               /\ proxyReadyState' =
                      AfterCloseCall(proxyReadyState, OverflowClose.code)
               /\ UNCHANGED <<pendingMessages, targetSent, sendThrew,
                               sendStates, targetReadyState>>
          ELSE /\ pendingMessages' = Push(pendingMessages, data)
               /\ UNCHANGED <<targetSent, proxyCloseCalls, proxyReadyState,
                               sendThrew, sendStates, targetReadyState>>
    /\ UNCHANGED <<timeoutId, targetOpened, upstreamIn,
                   proxySent, targetCloseCalls, proxyCloseEvents,
                   targetCloseEvents, targetErrored, api, route>>

\* Mutant: an upstream frame is sent whatever the client readiness state.
ForwardsToClientAlways(state) == TRUE

\* if (proxy.readyState === WebSocket.OPEN) proxy.send(event.data)
ForwardsToClient(state) == state = "OPEN"

\* Mutant: every upstream frame is forwarded as a text frame.
ForwardedDataAsText(data) == <<data[1], "text">>

\* proxy.send(event.data): the payload handed to the client socket.
ForwardedData(data) == data

\* targetWebSocket.addEventListener("message", ...). Only a socket that has
\* opened delivers frames; a frame the upstream sent before it saw the
\* relay's close can still arrive while CLOSING.
TargetMessage ==
    /\ targetOpened
    /\ targetReadyState \in {"OPEN", "CLOSING"}
    /\ Len(upstreamIn) < MaxUpstreamFrames
    /\ \E payload \in UpstreamPayloads :
          LET data == <<Len(upstreamIn) + 1, payload>> IN
          /\ upstreamIn' = Append(upstreamIn,
                 [data |-> data, readyState |-> proxyReadyState])
          /\ IF ForwardsToClient(proxyReadyState)
             THEN /\ proxySent' = Append(proxySent, ForwardedData(data))
                  /\ sendStates' =
                         SendObserved(sendStates, "proxy", proxyReadyState)
                  /\ \E outcome \in SendOutcomes :
                        /\ sendThrew' = AfterSend(sendThrew, "proxy", outcome)
                        /\ proxyReadyState' =
                               SocketAfterSend(proxyReadyState, outcome)
             ELSE UNCHANGED <<proxySent, sendThrew, sendStates,
                              proxyReadyState>>
    /\ UNCHANGED <<targetReadyState, pendingMessages,
                   timeoutId, targetOpened, clientIn, targetSent,
                   targetCloseCalls, proxyCloseCalls, proxyCloseEvents,
                   targetCloseEvents, targetErrored, api, route>>

\* Mutant: the mirrored close drops the reason.
MirroredCloseNoReason(event) == [code |-> event.code, reason |-> ""]

\* The arguments of the mirrored close: (event.code, event.reason).
MirroredClose(event) == [code |-> event.code, reason |-> event.reason]

\* Mutant: a close is mirrored to a socket that is still connecting, too.
MirrorsToConnecting(state) == state \in {"CONNECTING", "OPEN"}

\* if (proxy.readyState === WebSocket.OPEN) / if (targetWebSocket.readyState
\* === WebSocket.OPEN): the guard of a mirrored close.
MirrorsTo(state) == state = "OPEN"

\* targetWebSocket.addEventListener("close", ...)
TargetClose ==
    /\ targetReadyState \in {"CONNECTING", "OPEN", "CLOSING"}
    /\ \E event \in CloseEvents :
          /\ targetCloseEvents' = Append(targetCloseEvents,
                 [code |-> event.code, reason |-> event.reason,
                  readyState |-> proxyReadyState])
          /\ IF MirrorsTo(proxyReadyState)
             THEN /\ proxyCloseCalls' =
                         Append(proxyCloseCalls, MirroredClose(event))
                  /\ proxyReadyState' =
                         AfterCloseCall(proxyReadyState, event.code)
             ELSE UNCHANGED <<proxyCloseCalls, proxyReadyState>>
    /\ targetReadyState' = "CLOSED"
    /\ UNCHANGED <<pendingMessages, timeoutId, targetOpened, clientIn,
                   upstreamIn, targetSent, proxySent, targetCloseCalls,
                   proxyCloseEvents, sendThrew, sendStates, targetErrored,
                   api, route>>

\* proxy.addEventListener("close", ...)
ProxyClose ==
    /\ proxyReadyState \in {"OPEN", "CLOSING"}
    /\ \E event \in CloseEvents :
          /\ proxyCloseEvents' = Append(proxyCloseEvents,
                 [code |-> event.code, reason |-> event.reason,
                  readyState |-> targetReadyState])
          /\ IF MirrorsTo(targetReadyState)
             THEN /\ targetCloseCalls' =
                         Append(targetCloseCalls, MirroredClose(event))
                  /\ targetReadyState' =
                         AfterCloseCall(targetReadyState, event.code)
             ELSE UNCHANGED <<targetCloseCalls, targetReadyState>>
    /\ proxyReadyState' = "CLOSED"
    /\ UNCHANGED <<pendingMessages, timeoutId, targetOpened, clientIn,
                   upstreamIn, targetSent, proxySent, proxyCloseCalls,
                   targetCloseEvents, sendThrew, sendStates, targetErrored,
                   api, route>>

\* Mutant: the error listener closes the client socket.
TargetErrorClosesClient ==
    /\ targetReadyState \in {"CONNECTING", "OPEN", "CLOSING"}
    /\ targetErrored' = TRUE
    /\ proxyCloseCalls' =
           Append(proxyCloseCalls, [code |-> 1011, reason |-> "error"])
    /\ proxyReadyState' = AfterCloseCall(proxyReadyState, 1011)
    /\ UNCHANGED <<targetReadyState, pendingMessages,
                   timeoutId, targetOpened, clientIn, upstreamIn, targetSent,
                   proxySent, targetCloseCalls,
                   proxyCloseEvents, targetCloseEvents, sendThrew,
                   sendStates, api, route>>

\* targetWebSocket.addEventListener("error", ...): the listener only logs.
TargetError ==
    /\ targetReadyState \in {"CONNECTING", "OPEN", "CLOSING"}
    /\ targetErrored' = TRUE
    /\ UNCHANGED <<targetReadyState, proxyReadyState, pendingMessages,
                   timeoutId, targetOpened, clientIn, upstreamIn, targetSent,
                   proxySent, targetCloseCalls, proxyCloseCalls,
                   proxyCloseEvents, targetCloseEvents, sendThrew,
                   sendStates, api, route>>

\* fetch runs from its entry to its first await or its return: an upgrade
\* request creates the Session and is answered 101; a request for an API
\* path starts handleAPIRequest, whose response fetch will return; any
\* other request waits for cache.match (index) or __STATIC_CONTENT.get.
RouteFetch ==
    /\ route.pc = "received"
    /\ LET branch == Dispatch(route.request) IN
       \/ /\ branch = "handleWebSocket"
          /\ CreateSession
          /\ route' = Responded(route, HandleWebSocket(route.request))
          /\ UNCHANGED api
       \/ /\ branch = "handleAPIRequest"
          /\ \E outcome \in ImportOutcomes, call \in ForwardCalls :
                api' = ApiStart(outcome, call)
          /\ route' = [route EXCEPT !.pc = "delegated",
                           !.response = Routed("handleAPIRequest", 0, "")]
          /\ UNCHANGED wsVars
       \/ /\ branch = "index"
          /\ route' = [route EXCEPT !.pc = "cacheMatch"]
          /\ UNCHANGED <<wsVars, api>>
       \/ /\ branch = "asset"
          /\ route' = [route EXCEPT !.pc = "assetGet"]
          /\ UNCHANGED <<wsVars, api>>

\* The bodies of the responses the cache can hold: what an earlier request
\* passed to cache.put, the content of index.html or, when KV had no
\* index.html, an empty body.
CachedBodies == {"index.html", ""}

\* await cache.match(cacheKey) settles: a cached response is returned as it
\* is, a miss goes on to read index.html from KV, a rejection rejects fetch.
RouteCacheMatched ==
    /\ route.pc = "cacheMatch"
    /\ \E outcome \in LookupOutcomes, body \in CachedBodies :
          route' =
              IF outcome = "found"
              THEN Responded(route, Routed("cache", 200, body))
              ELSE IF outcome = "missing"
              THEN [route EXCEPT !.pc = "indexGet"]
              ELSE [route EXCEPT !.pc = "rejected"]
    /\ UNCHANGED <<wsVars, api>>

\* await env.__STATIC_CONTENT.get('index.html') settles: the response is
\* built from whatever KV holds (a missing key gives an empty body).
RouteIndexRead ==
    /\ route.pc = "indexGet"
    /\ \E outcome \in LookupOutcomes :
          route' =
              IF outcome = "found"
              THEN Responded(route, Routed("index", 200, "index.html"))
              ELSE IF outcome = "missing"
              THEN Responded(route, Routed("index", 200, ""))
              ELSE [route EXCEPT !.pc = "rejected"]
    /\ UNCHANGED <<wsVars, api>>

\* await env.__STATIC_CONTENT.get(url.pathname.slice(1)) settles: the asset
\* is returned, or 404 'Not found' when there is none.
RouteAssetRead ==
    /\ route.pc = "assetGet"
    /\ \E outcome \in LookupOutcomes :
          route' =
              IF outcome = "found"
              THEN Responded(route, Routed("asset", 200, "asset"))
              ELSE IF outcome = "missing"
              THEN Responded(route, Routed("notFound", 404, "Not found"))
              ELSE [route EXCEPT !.pc = "rejected"]
    /\ UNCHANGED <<wsVars, api>>

\* One relay Session, from the return of handleWebSocket.
Init ==
    /\ WsInit
    /\ api = ApiIdle
    /\ route = RouteIdle

Next ==
    \/ TimeoutCallback
    \/ TargetOpen
    \/ ProxyMessage
    \/ TargetMessage
    \/ TargetClose
    \/ ProxyClose
    \/ TargetError

Spec == Init /\ [][Next]_vars

\* One call of handleAPIRequest.
InitAPI ==
    /\ WsNone
    /\ ApiInit
    /\ route = RouteIdle

NextAPI ==
    \/ ApiImportSettles
    \/ ApiDeadline
    \/ ApiForwardSettles

SpecAPI == InitAPI /\ [][NextAPI]_vars

\* One request, from the fetch entry point on: the routing, then the call
\* of handleAPIRequest or the Session it started.
InitRouter ==
    /\ WsNone
    /\ api = ApiIdle
    /\ RouteInit

NextRouter ==
    \/ RouteFetch
    \/ RouteCacheMatched
    \/ RouteIndexRead
    \/ RouteAssetRead
    \/ NextAPI
    \/ Next

SpecRouter == InitRouter /\ [][NextRouter]_vars

\* ------------------------------------------------------------------ claims

\* The elements of a sequence.
Range(s) == {s[i] : i \in 1..Len(s)}

\* The last element of a non-empty sequence.
Last(s) == s[Len(s)]

\* The payloads of a sequence of message events.
Data(s) == [i \in 1..Len(s) |-> s[i].data]

\* The client frames that arrived while upstream was connecting.
FramesWhileConnecting ==
    SelectSeq(clientIn, LAMBDA f : f.readyState = "CONNECTING")

\* The client frames that arrived while upstream was open.
FramesWhileOpen == SelectSeq(clientIn, LAMBDA f : f.readyState = "OPEN")

\* The client frames that arrived before the open listener ran.
FramesBeforeOpen == SelectSeq(clientIn, LAMBDA f : ~f.afterOpen)

\* C1. Order preservation: when at most MAX_PENDING frames arrived while
\* upstream was connecting and no send threw, the frames sent to upstream
\* are, once upstream has opened, exactly those frames in arrival order
\* followed by the frames that arrived while upstream was open, in arrival
\* order; before upstream opens nothing is sent.
C1_OrderPreservation ==
    ("target" \notin sendThrew
        /\ Len(FramesWhileConnecting) <= MAX_PENDING_MESSAGES)
    => targetSent =
           IF targetOpened
           THEN Data(FramesWhileConnecting) \o Data(FramesWhileOpen)
           ELSE <<>>

\* C1 witness: a full buffer was drained and two more frames were forwarded.
C1_Witness ==
    /\ targetOpened
    /\ "target" \notin sendThrew
    /\ Len(FramesWhileConnecting) = MAX_PENDING_MESSAGES
    /\ Len(FramesWhileOpen) = 2
    /\ Len(targetSent) = MAX_PENDING_MESSAGES + 2

\* C2. The pending buffer never holds more than MAX_PENDING (10) frames.
C2_BufferBounded == Len(pendingMessages) <= 10

\* C2 witness: the buffer is full and one more frame has arrived.
C2_Witness ==
    /\ Len(pendingMessages) = 10
    /\ Len(clientIn) > 10

\* C3. Bounded buffering: the client socket is closed with 1008 exactly when
\* the (MAX_PENDING+1)-th frame arrives before upstream opens; that frame is
\* neither buffered nor sent, and at most MAX_PENDING of the frames that
\* arrived before the open are ever sent to upstream.
C3_BoundedBuffering ==
    LET closed1008 ==
            \E i \in 1..Len(proxyCloseCalls) : proxyCloseCalls[i].code = 1008
    IN  /\ (~targetOpened /\ Len(FramesBeforeOpen) <= 10) => ~closed1008
        /\ Len(FramesBeforeOpen) >= 11 =>
              LET excess == FramesBeforeOpen[11].data IN
              /\ closed1008
              /\ proxyReadyState # "OPEN"
              /\ excess \notin Range(pendingMessages)
              /\ excess \notin Range(targetSent)
              /\ Cardinality(Range(targetSent)
                     \cap Range(Data(FramesBeforeOpen))) <= 10

\* C3 witness: eleven frames arrived before the open, then upstream opened
\* and the ten buffered ones were drained.
C3_Witness ==
    /\ Len(FramesBeforeOpen) >= 11
    /\ targetOpened
    /\ Len(targetSent) = 10

\* The close the claim expects of the timer.
IdleClose == [code |-> 1000, reason |-> "No activity after connection"]

\* C4. Idle reclamation: when the timer fires while upstream is connecting
\* and no client frame has arrived, close(1000, 'No activity after
\* connection') is called on the upstream socket, which leaves the
\* connecting state for good: it is closing or closed from then on.
C4_IdleReclamation ==
    [][/\ (timeoutId = "active" /\ timeoutId' = "fired"
              /\ targetReadyState = "CONNECTING" /\ clientIn = <<>>)
          => /\ targetCloseCalls' = Append(targetCloseCalls, IdleClose)
             /\ targetReadyState' \in {"CLOSING", "CLOSED"}
       /\ IdleClose \in Range(targetCloseCalls')
          => (targetReadyState' \in {"CLOSING", "CLOSED"} /\ ~targetOpened')
      ]_vars

\* C4 witness: the timer fired on an idle Session whose upstream was still
\* connecting.
C4_Witness ==
    /\ timeoutId = "fired"
    /\ clientIn = <<>>
    /\ targetCloseEvents = <<>>
    /\ targetReadyState = "CLOSING"
    /\ targetCloseCalls = <<IdleClose>>

\* C5. Liveness overrides timeout: when a client frame has arrived before
\* the timer fires, the firing calls close on neither socket and changes
\* neither readyState.
C5_LivenessOverridesTimeout ==
    [][(timeoutId = "active" /\ timeoutId' = "fired" /\ clientIn # <<>>)
       => /\ targetCloseCalls' = targetCloseCalls
          /\ proxyCloseCalls' = proxyCloseCalls
          /\ targetReadyState' = targetReadyState
          /\ proxyReadyState' = proxyReadyState]_vars

\* C5 witness: the timer fired with a frame buffered, and upstream is still
\* connecting and the client still open.
C5_Witness ==
    /\ timeoutId = "fired"
    /\ pendingMessages # <<>>
    /\ targetCloseCalls = <<>>
    /\ targetReadyState = "CONNECTING"
    /\ proxyReadyState = "OPEN"

\* C6. Mirrored closure: a close event (c, r) on the client socket while
\* upstream is open calls close(c, r) on the upstream socket, and a close
\* event (c, r) on the upstream socket while the client is open calls
\* close(c, r) on the client socket, with that code and reason.
C6_MirroredClosure ==
    [][/\ (Len(proxyCloseEvents') = Len(proxyCloseEvents) + 1
              /\ targetReadyState = "OPEN")
          => targetCloseCalls' = Append(targetCloseCalls,
                 [code |-> Last(proxyCloseEvents').code,
                  reason |-> Last(proxyCloseEvents').reason])
       /\ (Len(targetCloseEvents') = Len(targetCloseEvents) + 1
              /\ proxyReadyState = "OPEN")
          => proxyCloseCalls' = Append(proxyCloseCalls,
                 [code |-> Last(targetCloseEvents').code,
                  reason |-> Last(targetCloseEvents').reason])]_vars

\* C6 witness: the client closed with (1000, "bye") while upstream was open
\* and upstream was closed with the same code and reason.
C6_Witness ==
    /\ proxyCloseEvents =
           <<[code |-> 1000, reason |-> "bye", readyState |-> "OPEN"]>>
    /\ targetCloseCalls = <<[code |-> 1000, reason |-> "bye"]>>
    /\ targetReadyState = "CLOSING"

\* C7. Pass-through fidelity: with both sockets open, an upstream frame
\* causes exactly one proxy.send of that frame and a client frame exactly
\* one targetWebSocket.send of that frame, appended in arrival order.
C7_PassThroughFidelity ==
    [][(targetReadyState = "OPEN" /\ proxyReadyState = "OPEN")
       => /\ upstreamIn' # upstreamIn
             => /\ proxySent' = Append(proxySent, Last(upstreamIn').data)
                /\ targetSent' = targetSent
          /\ clientIn' # clientIn
             => /\ targetSent' = Append(targetSent, Last(clientIn').data)
                /\ proxySent' = proxySent]_vars

\* C7 witness: two upstream frames, a binary one among them, and two client
\* frames were relayed in pass-through mode.
C7_Witness ==
    /\ targetReadyState = "OPEN"
    /\ proxyReadyState = "OPEN"
    /\ Len(proxySent) = 2
    /\ proxySent[2][2] = "binary"
    /\ Len(FramesWhileOpen) >= 2
    /\ pendingMessages = <<>>

\* The call got as far as the race: the module loaded and
\* worker.default.fetch returned a promise.
ReachedRace == api.import = "loaded" /\ api.forward.kind # "throws"

\* C8. handleAPIRequest never throws and returns at most one response, and
\* has returned once a branch of the race has settled. When the deadline
\* settles first the response is 500 'API request timeout' as plain text;
\* when the forward call resolves first its response is returned unchanged;
\* when it rejects first with an Error the response carries the error's
\* message and its status, 500 when it has none.
C8_TimeoutGuardOutcome ==
    /\ api.pc # "threw"
    /\ api.returns <= 1
    /\ (api.pc = "returned") <=> (api.returns = 1)
    /\ (api.pc # "importing" /\ api.first # "none") => api.pc = "returned"
    /\ (api.pc = "returned" /\ ReachedRace) =>
          /\ api.first = "deadline" =>
                api.response = [status |-> 500, body |-> "API request timeout",
                                contentType |-> "text/plain;charset=UTF-8"]
          /\ (api.first = "forward" /\ api.forward.kind = "resolves") =>
                api.response = api.forward.response
          /\ (api.first = "forward" /\ api.forward.kind = "rejects"
                 /\ api.forward.error.isError) =>
                api.response =
                    [status |-> IF api.forward.error.status = 0 THEN 500
                                ELSE api.forward.error.status,
                     body |-> api.forward.error.message,
                     contentType |-> "text/plain;charset=UTF-8"]

\* C9. Once upstream has opened and the buffer was drained, no client frame
\* is appended to the pending buffer again.
C9_NoBufferingAfterDrain ==
    [][targetOpened => pendingMessages' = pendingMessages]_vars

\* C10 as stated: the timer is no longer active once upstream has opened,
\* nor once upstream went from connecting directly to closed.
C10_TimerEndsWithUpstream ==
    (targetOpened \/ targetReadyState = "CLOSED") => timeoutId # "active"

\* C10, amended. The one timer of a Session ends once, for good: it is
\* cancelled by the open listener or it fires. The callback never runs after
\* upstream has opened. A close event on the upstream socket does not end
\* the timer: after connecting -> closed it stays active until it fires.
C10_TimerLifecycle ==
    [][/\ timeoutId # "active" => timeoutId' = timeoutId
       /\ timeoutId' \in {"active", "cancelled", "fired"}
       /\ (timeoutId = "active" /\ timeoutId' = "cancelled")
          => (~targetOpened /\ targetOpened')
       /\ targetOpened' => timeoutId' # "active"
       /\ (timeoutId = "active" /\ timeoutId' = "fired") => ~targetOpened
       /\ Len(targetCloseEvents') > Len(targetCloseEvents)
          => timeoutId' = timeoutId]_vars

\* C10 witness: upstream went from connecting to closed and the timer is
\* still active.
C10_Witness ==
    /\ ~targetOpened
    /\ targetReadyState = "CLOSED"
    /\ timeoutId = "active"

\* C11. Session termination: once a socket has closed and the relay has
\* nothing left to run (the timer is cancelled or has fired), the other
\* socket is not left connecting or open: the relay has closed it or it is
\* closed.
C11_SessionTerminates ==
    (timeoutId # "active"
        /\ (proxyReadyState = "CLOSED" \/ targetReadyState = "CLOSED"))
    => /\ proxyReadyState # "OPEN"
       /\ targetReadyState \notin {"CONNECTING", "OPEN"}

\* C12. No promise of handleAPIRequest rejects without a handler attached.
C12_NoUnhandledRejection == api.unhandled = {}

\* C13. A request for the socket path that does not declare the websocket
\* upgrade is answered 400 'Expected WebSocket connection'.
C13_NonUpgradeRejected ==
    (/\ route.pc = "responded"
     /\ route.request.upgrade # "websocket"
     /\ route.request.path = SocketPath)
    => /\ route.response.status = 400
       /\ route.response.body = "Expected WebSocket connection"

\* C14. Every send happens while the socket it is called on is OPEN: the
\* readiness state observed at each send is OPEN; nothing is sent to
\* upstream before it has opened; a client frame that arrived while upstream
\* was closing or closed is never handed to send; an upstream frame that
\* arrived while the client was not open is never handed to send.
C14_SendsOnlyWhenOpen ==
    /\ \A observed \in sendStates : observed[2] = "OPEN"
    /\ targetSent # <<>> => <<"target", "OPEN">> \in sendStates
    /\ proxySent # <<>> => <<"proxy", "OPEN">> \in sendStates
    /\ ~targetOpened => targetSent = <<>>
    /\ \A i \in 1..Len(clientIn) :
          clientIn[i].readyState \in {"CLOSING", "CLOSED"}
          => clientIn[i].data \notin Range(targetSent)
    /\ \A i \in 1..Len(upstreamIn) :
          upstreamIn[i].readyState # "OPEN"
          => upstreamIn[i].data \notin Range(proxySent)

\* C14 witness: frames were sent on both sockets, then upstream closed and a
\* client frame that arrived afterwards was not sent.
C14_Witness ==
    /\ sendStates = {<<"target", "OPEN">>, <<"proxy", "OPEN">>}
    /\ targetSent # <<>>
    /\ proxySent # <<>>
    /\ \E i \in 1..Len(clientIn) :
          /\ clientIn[i].readyState = "CLOSED"
          /\ clientIn[i].data \notin Range(targetSent)

\* The step is the open listener.
OpenStep == ~targetOpened /\ targetOpened'

\* C15. A send that throws changes no Session state: in the step of the
\* first throw on a leg no close is called, the client socket keeps its
\* state and the upstream socket keeps its state (OPEN, in the open
\* listener), the timer is touched only by the open listener's clearTimeout,
\* and the drain still hands every buffered frame to send, in order, and
\* empties the buffer. After a throw, frames are relayed as before, each
\* handed to send once.
C15_SendFailureIgnored ==
    [][/\ sendThrew' # sendThrew
          => /\ proxyReadyState' = proxyReadyState
             /\ targetReadyState' =
                    IF OpenStep THEN "OPEN" ELSE targetReadyState
             /\ targetCloseCalls' = targetCloseCalls
             /\ proxyCloseCalls' = proxyCloseCalls
             /\ timeoutId' =
                    IF OpenStep THEN ClearTimeout(timeoutId) ELSE timeoutId
             /\ OpenStep => /\ targetSent' = targetSent \o pendingMessages
                            /\ pendingMessages' = <<>>
             /\ ~OpenStep => pendingMessages' = pendingMessages
       /\ ("target" \in sendThrew /\ clientIn' # clientIn
              /\ targetReadyState = "OPEN")
          => targetSent' = Append(targetSent, Last(clientIn').data)
       /\ ("proxy" \in sendThrew /\ upstreamIn' # upstreamIn
              /\ proxyReadyState = "OPEN")
          => proxySent' = Append(proxySent, Last(upstreamIn').data)]_vars

\* C15 witness: sends have thrown on both legs, both sockets are open, the
\* buffered frames were drained, and every client frame was handed to send
\* once.
C15_Witness ==
    /\ sendThrew = {"target", "proxy"}
    /\ targetReadyState = "OPEN"
    /\ proxyReadyState = "OPEN"
    /\ Len(FramesWhileConnecting) >= 2
    /\ Len(FramesWhileOpen) >= 2
    /\ pendingMessages = <<>>
    /\ targetSent = Data(clientIn)
    /\ Len(proxySent) = 2

\* The client socket was closed for overflow.
Overflowed ==
    \E i \in 1..Len(proxyCloseCalls) : proxyCloseCalls[i].code = 1008

\* C16. After the overflow close (1008) no client frame is accepted: a
\* client frame that arrives afterwards is neither appended to the pending
\* buffer nor sent to upstream.
C16_NoFrameAfterOverflow ==
    [][(Overflowed /\ clientIn' # clientIn)
       => /\ pendingMessages' = pendingMessages
          /\ targetSent' = targetSent]_vars

\* C17. An error event on the upstream socket changes nothing: neither
\* socket's readiness state, nor the buffer, the timer, the frames sent or
\* the close calls. After an error the client socket is closed only by the
\* listeners that close it otherwise: the upstream close listener, with the
\* event's code and reason, or the overflow test.
C17_ErrorEventInert ==
    [][/\ targetErrored' # targetErrored
          => UNCHANGED <<targetReadyState, proxyReadyState, pendingMessages,
                         timeoutId, targetOpened, targetSent, proxySent,
                         targetCloseCalls, proxyCloseCalls>>
       /\ (targetErrored /\ proxyCloseCalls' # proxyCloseCalls)
          => \/ /\ Len(targetCloseEvents') = Len(targetCloseEvents) + 1
                /\ proxyCloseCalls' = Append(proxyCloseCalls,
                       [code |-> Last(targetCloseEvents').code,
                        reason |-> Last(targetCloseEvents').reason])
             \/ /\ clientIn' # clientIn
                /\ proxyCloseCalls' = Append(proxyCloseCalls, OverflowClose)
       /\ (targetErrored /\ proxyReadyState = "OPEN"
              /\ proxyReadyState' # "OPEN")
          => \/ Len(targetCloseEvents') = Len(targetCloseEvents) + 1
             \/ Len(proxyCloseEvents') = Len(proxyCloseEvents) + 1
             \/ clientIn' # clientIn]_vars

\* C17 witness: an error event on the connecting upstream socket, with
\* frames buffered, was followed by its close event, which closed the
\* client; the timer is still active.
C17_Witness ==
    /\ targetErrored
    /\ ~targetOpened
    /\ Len(targetCloseEvents) = 1
    /\ proxyCloseCalls = <<[code |-> 1000, reason |-> "bye"]>>
    /\ proxyReadyState = "CLOSING"
    /\ Len(pendingMessages) >= 2
    /\ timeoutId = "active"

\* C18. No duplication towards upstream: each client frame received is
\* handed to targetWebSocket.send at most once; no frame is both in the
\* buffer and sent; once upstream has opened the buffer holds no frame that
\* arrived before the open.
C18_NoDuplication ==
    /\ \A i, j \in 1..Len(targetSent) :
          targetSent[i] = targetSent[j] => i = j
    /\ Range(targetSent) \subseteq Range(Data(clientIn))
    /\ Range(pendingMessages) \cap Range(targetSent) = {}
    /\ targetOpened
       => Range(pendingMessages) \cap Range(Data(FramesBeforeOpen)) = {}

\* C18 witness: buffered frames were drained, further frames were forwarded
\* directly, and a frame that arrived after upstream closed sits in the
\* buffer.
C18_Witness ==
    /\ targetOpened
    /\ Len(FramesWhileConnecting) >= 2
    /\ Len(FramesWhileOpen) >= 2
    /\ Len(targetSent) >= 4
    /\ Len(pendingMessages) = 1

\* The upstream frames that arrived while the client socket was open.
UpstreamWhileClientOpen ==
    SelectSeq(upstreamIn, LAMBDA f : f.readyState = "OPEN")

\* C19. No buffering towards the client: the frames handed to proxy.send
\* are exactly the upstream frames that arrived while the client socket was
\* open, so a frame that arrived while it was not open is never delivered;
\* dropping a frame changes nothing else.
C19_UpstreamFramesDropped ==
    [][/\ proxySent' = Data(UpstreamWhileClientOpen')
       /\ (upstreamIn' # upstreamIn /\ proxyReadyState # "OPEN")
          => UNCHANGED <<proxySent, targetReadyState, proxyReadyState,
                         pendingMessages, timeoutId, targetSent,
                         targetCloseCalls, proxyCloseCalls, sendThrew>>]_vars

\* C19 witness: the first upstream frame was forwarded, the client closed,
\* a second upstream frame arrived and was not forwarded.
C19_Witness ==
    /\ Len(upstreamIn) = 2
    /\ upstreamIn[1].readyState = "OPEN"
    /\ upstreamIn[2].readyState = "CLOSED"
    /\ proxySent = <<upstreamIn[1].data>>

\* C20. close is called on the upstream socket in exactly two situations:
\* by the timer callback when the buffer is empty and by the client close
\* listener when upstream is open. A client close event or an overflow close
\* while upstream is connecting leaves upstream connecting, and the open
\* listener drains the buffer whatever the state of the client socket.
C20_UpstreamCloseSites ==
    [][LET timerFires == timeoutId = "active" /\ timeoutId' = "fired"
           clientCloses ==
               Len(proxyCloseEvents') = Len(proxyCloseEvents) + 1
           overflowCloses ==
               proxyCloseCalls' = Append(proxyCloseCalls, OverflowClose)
       IN  /\ targetCloseCalls' # targetCloseCalls
              <=> \/ timerFires /\ pendingMessages = <<>>
                  \/ clientCloses /\ targetReadyState = "OPEN"
           /\ (timerFires /\ pendingMessages = <<>>)
              => targetCloseCalls' = Append(targetCloseCalls, NoActivityClose)
           /\ ((clientCloses \/ overflowCloses)
                  /\ targetReadyState = "CONNECTING")
              => /\ targetReadyState' = "CONNECTING"
                 /\ pendingMessages' = pendingMessages
           /\ (OpenStep /\ proxyReadyState # "OPEN")
              => targetSent' = targetSent \o pendingMessages]_vars

\* C20 witness: the client closed while upstream was connecting, then
\* upstream opened and the buffered frames were sent to it; close was never
\* called on upstream.
C20_Witness ==
    /\ proxyReadyState = "CLOSED"
    /\ proxyCloseEvents[1].readyState = "CONNECTING"
    /\ targetReadyState = "OPEN"
    /\ FramesWhileOpen = <<>>
    /\ Len(targetSent) >= 2
    /\ targetCloseCalls = <<>>

====
